---- MODULE Spec2Model ----
(***************************************************************************)
(* A model of stringmeup/taxonomy.py: the TaxonomyTree built from a        *)
(* nodes.dmp file and the memoising queries that are answered from it.     *)
(*                                                                         *)
(* The state is the TaxonomyTree object: the node mapping, the rank index, *)
(* the leaf set and the three caches (lineages, distances, lca_mappings).  *)
(* nodes_file is the file the tree was built from, history the calls the   *)
(* caller has made so far with what each returned.                         *)
(***************************************************************************)
EXTENDS Integers, Sequences, FiniteSets, TLC

VARIABLES nodes_file, taxonomy, byranks, leaves,
          lineages, distances, lca_mappings, history

vars == <<nodes_file, taxonomy, byranks, leaves,
          lineages, distances, lca_mappings, history>>

tree == <<nodes_file, taxonomy, byranks, leaves>>

----------------------------------------------------------------------------
(* Bounds *)

\* identifiers are drawn from 1..MaxId
MaxId == 3

\* number of calls the caller makes on one tree
MaxQueries == 2

----------------------------------------------------------------------------
(* Values *)

\* Python's None, for a parent or a returned identifier (identifiers are > 0)
None == 0

\* Python's None, for a rank that no line has set yet
NoneRank == "<None>"

\* the identifier of the root
ROOT == 1

NoError == "ok"
KeyError == "KeyError"
ValueError == "ValueError"
TaxonomyTreeException == "TaxonomyTreeException"

Ids == 1..MaxId

Min(a, b) == IF a <= b THEN a ELSE b
Max(a, b) == IF a <= b THEN b ELSE a

\* d[k] = v on a dict
Put(d, k, v) == [x \in (DOMAIN d) \cup {k} |-> IF x = k THEN v ELSE d[x]]

\* the empty dict
EmptyDict == <<>>

\* list.reverse()
Reverse(s) == [i \in 1..Len(s) |-> s[Len(s) + 1 - i]]

\* set(list)
ToSet(s) == {s[i] : i \in 1..Len(s)}

\* list.index(x), 0-based; -1 stands for the ValueError of an absent x
Index(s, x) ==
    IF x \in ToSet(s)
    THEN (CHOOSE i \in 1..Len(s) : s[i] = x /\ \A j \in 1..(i - 1) : s[j] # x) - 1
    ELSE -1

\* list.remove(x): drops the first occurrence
Remove(s, x) ==
    LET i == Index(s, x) + 1
    IN  IF i = 0 THEN s ELSE SubSeq(s, 1, i - 1) \o SubSeq(s, i + 1, Len(s))

\* Python's None, for a name that names.dmp does not give
NoneName == <<>>

Node(name, genbank_common_name, rank, parent, children) ==
    [name |-> name, genbank_common_name |-> genbank_common_name,
     rank |-> rank, parent |-> parent, children |-> children]

translate_rank2code ==
    [r \in {"superkingdom", "kingdom", "phylum", "class",
            "order", "family", "genus", "species"} |->
        CASE r = "superkingdom" -> "D"
          [] r = "kingdom" -> "K"
          [] r = "phylum" -> "P"
          [] r = "class" -> "C"
          [] r = "order" -> "O"
          [] r = "family" -> "F"
          [] r = "genus" -> "G"
          [] r = "species" -> "S"]

----------------------------------------------------------------------------
(* construct_tree *)

\* one line of nodes.dmp, as tax_info[0:3] after int() and strip()
Line(tax_id, tax_parent, tax_rank) ==
    [tax_id |-> tax_id, tax_parent |-> tax_parent, tax_rank |-> tax_rank]

\* the names read from names.dmp: every tax_id has a scientific name, the even
\* ones a genbank common name as well
taxid2name(tax_id) ==
    [scientific_name |-> <<"scientific name", tax_id>>,
     genbank_common_name |-> IF tax_id % 2 = 0
                             THEN <<"genbank common name", tax_id>>
                             ELSE NoneName]

\* what __init__ sets before construct_tree runs
EmptyTree == [taxonomy |-> EmptyDict, byranks |-> EmptyDict, leaves |-> {}]

\* faulty variant: a node first seen as a parent keeps its placeholder rank
ReadLineKeepsPlaceholder(t, line) ==
    LET tax_id == line.tax_id
        tax_parent == line.tax_parent
        tax_rank == line.tax_rank
        seen == tax_id \in DOMAIN t.taxonomy
        tx1 == IF seen
               THEN [t.taxonomy EXCEPT ![tax_id].parent = tax_parent]
               ELSE Put(t.taxonomy, tax_id,
                        Node(taxid2name(tax_id).scientific_name,
                             taxid2name(tax_id).genbank_common_name,
                             tax_rank, tax_parent, <<>>))
        lv1 == IF seen THEN t.leaves ELSE t.leaves \cup {tax_id}
        parent_seen == tax_parent \in DOMAIN tx1
        tx2 == IF parent_seen
               THEN [tx1 EXCEPT ![tax_parent].children = Append(@, tax_id)]
               ELSE Put(tx1, tax_parent,
                        Node(taxid2name(tax_parent).scientific_name,
                             taxid2name(tax_parent).genbank_common_name,
                             NoneRank, None, <<tax_id>>))
        lv2 == IF parent_seen THEN lv1 \ {tax_parent} ELSE lv1
        br == IF tax_rank \in DOMAIN t.byranks
              THEN [t.byranks EXCEPT ![tax_rank] = @ \cup {tax_id}]
              ELSE Put(t.byranks, tax_rank, {tax_id})
    IN  [taxonomy |-> tx2, byranks |-> br, leaves |-> lv2]

\* the body of the loop over the lines of nodes.dmp
ReadLine(t, line) ==
    LET tax_id == line.tax_id
        tax_parent == line.tax_parent
        tax_rank == line.tax_rank
        seen == tax_id \in DOMAIN t.taxonomy
        tx1 == IF seen
               THEN [t.taxonomy EXCEPT ![tax_id].rank = tax_rank,
                                       ![tax_id].parent = tax_parent]
               ELSE Put(t.taxonomy, tax_id,
                        Node(taxid2name(tax_id).scientific_name,
                             taxid2name(tax_id).genbank_common_name,
                             tax_rank, tax_parent, <<>>))
        lv1 == IF seen THEN t.leaves ELSE t.leaves \cup {tax_id}
        parent_seen == tax_parent \in DOMAIN tx1
        tx2 == IF parent_seen
               THEN [tx1 EXCEPT ![tax_parent].children = Append(@, tax_id)]
               ELSE Put(tx1, tax_parent,
                        Node(taxid2name(tax_parent).scientific_name,
                             taxid2name(tax_parent).genbank_common_name,
                             NoneRank, None, <<tax_id>>))
        lv2 == IF parent_seen THEN lv1 \ {tax_parent} ELSE lv1
        br == IF tax_rank \in DOMAIN t.byranks
              THEN [t.byranks EXCEPT ![tax_rank] = @ \cup {tax_id}]
              ELSE Put(t.byranks, tax_rank, {tax_id})
    IN  [taxonomy |-> tx2, byranks |-> br, leaves |-> lv2]

RECURSIVE ReadLines(_, _)
ReadLines(t, lines) ==
    IF lines = <<>> THEN t
    ELSE ReadLines(ReadLine(t, Head(lines)), Tail(lines))

\* faulty variant: the root stays in its own children
AdjustRootKeepsChild(t) == [t EXCEPT !.taxonomy[ROOT].parent = None]

\* "Adjust the root": the root's self loop is removed
AdjustRoot(t) ==
    LET root_children == Remove(t.taxonomy[ROOT].children, ROOT)
    IN  [t EXCEPT !.taxonomy[ROOT].parent = None,
                  !.taxonomy[ROOT].children = root_children]

construct_tree(lines) == AdjustRoot(ReadLines(EmptyTree, lines))

----------------------------------------------------------------------------
(* The nodes.dmp files the trees are built from *)

\* the textual ranks the lines carry
InputRanks == {"no rank", "kingdom", "species"}

RECURSIVE ReachesRoot(_, _, _)
ReachesRoot(p, i, fuel) ==
    IF i = ROOT THEN TRUE
    ELSE IF fuel = 0 THEN FALSE
    ELSE ReachesRoot(p, p[i], fuel - 1)

\* the parent columns of a valid file over the identifiers 1..n: the root
\* line is 1|1 and every other identifier descends from the root
ParentColumns(n) ==
    {p \in [1..n -> 1..n] : p[ROOT] = ROOT /\ \A i \in 2..n : ReachesRoot(p, i, n)}

RECURSIVE DepthIn(_, _)
DepthIn(p, i) == IF i = ROOT THEN 0 ELSE 1 + DepthIn(p, p[i])

\* a regular taxonomy: the rank follows the depth
RegularRank(d) ==
    CASE d = 0 -> "no rank"
      [] d = 1 -> "kingdom"
      [] d = 2 -> "no rank"
      [] OTHER -> "species"

\* the rank columns: the root has 'no rank', as in every NCBI dump
RankColumns(n) == {r \in [1..n -> InputRanks] : r[ROOT] = "no rank"}

\* the file with its lines in the order given
File(n, p, r, order) == [k \in 1..n |-> Line(order[k], p[order[k]], r[order[k]])]

Ascending(n) == [k \in 1..n |-> k]

Built(file) ==
    LET t == construct_tree(file)
    IN  /\ nodes_file = file
        /\ taxonomy = t.taxonomy
        /\ byranks = t.byranks
        /\ leaves = t.leaves
        /\ lineages = EmptyDict
        /\ distances = EmptyDict
        /\ lca_mappings = EmptyDict
        /\ history = <<>>

----------------------------------------------------------------------------
(* Queries.  Each takes the caches c as they are when it is called and      *)
(* returns them as it leaves them, with the value it returns (ret) and the  *)
(* exception it raises (err, NoError when it returns).                      *)
(*                                                                          *)
(* A call's result is bound once, as the one element of a set: the form     *)
(* Only({ ... got ... : got \in {call} }) is "got = call; ... got ...".     *)

Only(S) == CHOOSE x \in S : TRUE

Caches == [lineages |-> lineages, distances |-> distances,
           lca_mappings |-> lca_mappings]

Result(c, ret, err) == [c |-> c, ret |-> ret, err |-> err]

\* _get_property(tax_id, property): the exception it raises, if any
PropertyError(tax_id) ==
    IF taxonomy = EmptyDict THEN TaxonomyTreeException
    ELSE IF tax_id \notin DOMAIN taxonomy THEN KeyError
    ELSE NoError

\* get_parent([tax_id])[tax_id], get_rank([tax_id])[tax_id],
\* get_children([tax_id])[tax_id] for a tax_id of the tree
get_parent(tax_id) == taxonomy[tax_id].parent
get_rank(tax_id) == taxonomy[tax_id].rank
get_children(tax_id) == taxonomy[tax_id].children

\* faulty variant: the KeyError is wrapped into the tree's own exception
NodeErrorWrapsKeyError(tax_id) ==
    IF taxonomy = EmptyDict \/ tax_id \notin DOMAIN taxonomy
    THEN TaxonomyTreeException
    ELSE NoError

\* get_node([tax_id]): the exception it raises, if any
NodeError(tax_id) ==
    IF taxonomy = EmptyDict THEN TaxonomyTreeException
    ELSE IF tax_id \notin DOMAIN taxonomy THEN KeyError
    ELSE NoError

\* the walk up the parent links in get_lineage, before lineage.reverse()
RECURSIVE LineageWalk(_)
LineageWalk(tax_id) ==
    IF taxonomy[tax_id].parent # None
    THEN <<tax_id>> \o LineageWalk(taxonomy[tax_id].parent)
    ELSE <<tax_id>>

\* faulty variant: lineage.reverse() is left out
ComputeLineageUnreversed(tax_id) == LineageWalk(tax_id)

\* the lineage get_lineage computes for a tax_id it has not cached
ComputeLineage(tax_id) == Reverse(LineageWalk(tax_id))

\* the loop of get_lineage over tax_id_list
RECURSIVE LineageLoop(_, _, _)
LineageLoop(c, lineage_dict, tax_id_list) ==
    IF tax_id_list = <<>> THEN Result(c, lineage_dict, NoError)
    ELSE LET tax_id == Head(tax_id_list)
         IN  IF tax_id \in DOMAIN c.lineages
             THEN Only({ LineageLoop(c, d, Tail(tax_id_list)) :
                         d \in {Put(lineage_dict, tax_id, c.lineages[tax_id])} })
             ELSE IF NodeError(tax_id) # NoError
             THEN Result(c, EmptyDict, NodeError(tax_id))
             ELSE Only({ LineageLoop(st[1], st[2], Tail(tax_id_list)) :
                         st \in { <<[c EXCEPT !.lineages = Put(@, tax_id, lineage)],
                                    Put(lineage_dict, tax_id, lineage)>> :
                                  lineage \in {ComputeLineage(tax_id)} } })

get_lineage(c, tax_id_list) == LineageLoop(c, EmptyDict, tax_id_list)

\* faulty variant: the index is one too small, the root standing in below index 0
PickLcaOffByOne(lineage_1, lineage_2) ==
    LET common_lineage == ToSet(lineage_1) \cap ToSet(lineage_2)
    IN  lineage_1[Max(Cardinality(common_lineage) - 1, 1)]

\* faulty variant: the shorter lineage is taken to be the common part
PickLcaShorter(lineage_1, lineage_2) ==
    lineage_1[Min(Len(lineage_1), Len(lineage_2))]

\* the LCA get_lca picks from the two lineages
PickLca(lineage_1, lineage_2) ==
    LET common_lineage == ToSet(lineage_1) \cap ToSet(lineage_2)
    IN  lineage_1[(Cardinality(common_lineage) - 1) + 1]

\* faulty variant: a failed lookup is cached for the pair, as "no LCA"
get_lca_caches_failure(c, tax_id_1, tax_id_2) ==
    LET tax_id_small == Min(tax_id_1, tax_id_2)
        tax_id_large == Max(tax_id_1, tax_id_2)
        outer == tax_id_small \in DOMAIN c.lca_mappings
        hit == outer /\ tax_id_large \in DOMAIN c.lca_mappings[tax_id_small]
        c1 == IF outer THEN c
              ELSE [c EXCEPT !.lca_mappings = Put(@, tax_id_small, EmptyDict)]
    IN  IF hit
        THEN Result(c, c.lca_mappings[tax_id_small][tax_id_large], NoError)
        ELSE Only({
               IF got.err # NoError
               THEN Result([got.c EXCEPT !.lca_mappings[tax_id_small] =
                                             Put(@, tax_id_large, None)],
                           None, got.err)
               ELSE Only({ Result([got.c EXCEPT !.lca_mappings[tax_id_small] =
                                                    Put(@, tax_id_large, lca)],
                                  lca, NoError) :
                           lca \in {PickLca(got.ret[tax_id_1], got.ret[tax_id_2])} }) :
               got \in {get_lineage(c1, <<tax_id_1, tax_id_2>>)} })

get_lca(c, tax_id_1, tax_id_2) ==
    LET tax_id_small == Min(tax_id_1, tax_id_2)
        tax_id_large == Max(tax_id_1, tax_id_2)
        outer == tax_id_small \in DOMAIN c.lca_mappings
        hit == outer /\ tax_id_large \in DOMAIN c.lca_mappings[tax_id_small]
        c1 == IF outer THEN c
              ELSE [c EXCEPT !.lca_mappings = Put(@, tax_id_small, EmptyDict)]
    IN  IF hit
        THEN Result(c, c.lca_mappings[tax_id_small][tax_id_large], NoError)
        ELSE Only({
               IF got.err # NoError THEN Result(got.c, None, got.err)
               ELSE Only({ Result([got.c EXCEPT !.lca_mappings[tax_id_small] =
                                                    Put(@, tax_id_large, lca)],
                                  lca, NoError) :
                           lca \in {PickLca(got.ret[tax_id_1], got.ret[tax_id_2])} }) :
               got \in {get_lineage(c1, <<tax_id_1, tax_id_2>>)} })

\* faulty variant: the nodes are counted where the edges should be
one_way_distance_nodes(c, tax_id_ancestor, tax_id) ==
    Only({
      IF got.err # NoError THEN Result(got.c, None, got.err)
      ELSE LET lineage == got.ret[tax_id]
               ancestor_index == Index(lineage, tax_id_ancestor)
               tax_id_index == Index(lineage, tax_id)
           IN  IF ancestor_index < 0 \/ tax_id_index < 0
               THEN Result(got.c, None, ValueError)
               ELSE Result(got.c, tax_id_index - ancestor_index + 1, NoError) :
      got \in {get_lineage(c, <<tax_id>>)} })

one_way_distance(c, tax_id_ancestor, tax_id) ==
    Only({
      IF got.err # NoError THEN Result(got.c, None, got.err)
      ELSE LET lineage == got.ret[tax_id]
               ancestor_index == Index(lineage, tax_id_ancestor)
               tax_id_index == Index(lineage, tax_id)
           IN  IF ancestor_index < 0 \/ tax_id_index < 0
               THEN Result(got.c, None, ValueError)
               ELSE Result(got.c, tax_id_index - ancestor_index, NoError) :
      got \in {get_lineage(c, <<tax_id>>)} })

\* faulty variant: only the first one-way distance is saved for next time
DistanceViaSavesHalf(l, tax_id_1, tax_id_2, tax_id_small, tax_id_large) ==
    Only({
      IF distance_1.err # NoError THEN Result(distance_1.c, None, distance_1.err)
      ELSE Only({
             IF distance_2.err # NoError
             THEN Result(distance_2.c, None, distance_2.err)
             ELSE Result([distance_2.c EXCEPT !.distances[tax_id_small] =
                              Put(@, tax_id_large, distance_1.ret)],
                         distance_1.ret + distance_2.ret, NoError) :
             distance_2 \in {one_way_distance(distance_1.c, l.ret, tax_id_2)} }) :
      distance_1 \in {one_way_distance(l.c, l.ret, tax_id_1)} })

\* get_distance once the LCA l is known
DistanceVia(l, tax_id_1, tax_id_2, tax_id_small, tax_id_large) ==
    Only({
      IF distance_1.err # NoError THEN Result(distance_1.c, None, distance_1.err)
      ELSE Only({
             IF distance_2.err # NoError
             THEN Result(distance_2.c, None, distance_2.err)
             ELSE Result([distance_2.c EXCEPT !.distances[tax_id_small] =
                              Put(@, tax_id_large, distance_1.ret + distance_2.ret)],
                         distance_1.ret + distance_2.ret, NoError) :
             distance_2 \in {one_way_distance(distance_1.c, l.ret, tax_id_2)} }) :
      distance_1 \in {one_way_distance(l.c, l.ret, tax_id_1)} })

get_distance(c, tax_id_1, tax_id_2) ==
    LET tax_id_small == Min(tax_id_1, tax_id_2)
        tax_id_large == Max(tax_id_1, tax_id_2)
        outer == tax_id_small \in DOMAIN c.distances
        hit == outer /\ tax_id_large \in DOMAIN c.distances[tax_id_small]
        c1 == IF outer THEN c
              ELSE [c EXCEPT !.distances = Put(@, tax_id_small, EmptyDict)]
    IN  IF hit
        THEN Result(c, c.distances[tax_id_small][tax_id_large], NoError)
        ELSE Only({
               IF l.err # NoError THEN Result(l.c, None, l.err)
               ELSE DistanceVia(l, tax_id_1, tax_id_2, tax_id_small, tax_id_large) :
               l \in {get_lca(c1, tax_id_1, tax_id_2)} })

----------------------------------------------------------------------------
(* Rank codes *)

Rank(rank_name, rank_code, rank_depth) ==
    [rank_name |-> rank_name, rank_code |-> rank_code, rank_depth |-> rank_depth]

\* raised in place of a loop that never ends
NoTermination == "NoTermination"

\* the while loop of get_rank_code: the node the walk stops at and its code.
\* fuel counts the iterations left; a tree of n nodes needs fewer than n.
RECURSIVE RankWalk(_, _, _)
RankWalk(current_node, rank, fuel) ==
    IF rank \in DOMAIN translate_rank2code
    THEN [node |-> current_node, code |-> translate_rank2code[rank], err |-> NoError]
    ELSE IF current_node = ROOT
    THEN [node |-> current_node, code |-> "R", err |-> NoError]
    ELSE IF fuel = 0
    THEN [node |-> current_node, code |-> "", err |-> NoTermination]
    ELSE LET parent == get_parent(current_node)
         IN  IF PropertyError(parent) # NoError
             THEN [node |-> parent, code |-> "", err |-> PropertyError(parent)]
             ELSE RankWalk(parent, get_rank(parent), fuel - 1)

\* faulty variant: rank_name is the rank the walk ended on, not the rank of tax_id
RankCodeOfLoopRank(c, tax_id) ==
    Only({
      IF walk.err # NoError THEN Result(c, None, walk.err)
      ELSE Only({
             IF rank_depth.err # NoError
             THEN Result(rank_depth.c, None, rank_depth.err)
             ELSE Result(rank_depth.c,
                         Rank(get_rank(walk.node), walk.code, rank_depth.ret),
                         NoError) :
             rank_depth \in {get_distance(c, walk.node, tax_id)} }) :
      walk \in {RankWalk(tax_id, get_rank(tax_id), Cardinality(DOMAIN taxonomy))} })

\* faulty variant: the depth is measured from tax_id to itself
RankCodeOfDepthFromSelf(c, tax_id) ==
    Only({
      IF walk.err # NoError THEN Result(c, None, walk.err)
      ELSE Only({
             IF rank_depth.err # NoError
             THEN Result(rank_depth.c, None, rank_depth.err)
             ELSE Result(rank_depth.c,
                         Rank(get_rank(tax_id), walk.code, rank_depth.ret),
                         NoError) :
             rank_depth \in {get_distance(c, tax_id, tax_id)} }) :
      walk \in {RankWalk(tax_id, get_rank(tax_id), Cardinality(DOMAIN taxonomy))} })

\* the body of get_rank_code's loop over the tax_ids
RankCodeOf(c, tax_id) ==
    Only({
      IF walk.err # NoError THEN Result(c, None, walk.err)
      ELSE Only({
             IF rank_depth.err # NoError
             THEN Result(rank_depth.c, None, rank_depth.err)
             ELSE Result(rank_depth.c,
                         Rank(get_rank(tax_id), walk.code, rank_depth.ret),
                         NoError) :
             rank_depth \in {get_distance(c, walk.node, tax_id)} }) :
      walk \in {RankWalk(tax_id, get_rank(tax_id), Cardinality(DOMAIN taxonomy))} })

RECURSIVE RankCodeLoop(_, _, _)
RankCodeLoop(c, rank_code_dict, tax_id_list) ==
    IF tax_id_list = <<>> THEN Result(c, rank_code_dict, NoError)
    ELSE LET tax_id == Head(tax_id_list)
         IN  Only({
               IF one.err # NoError THEN Result(one.c, EmptyDict, one.err)
               ELSE Only({ RankCodeLoop(one.c, d, Tail(tax_id_list)) :
                           d \in {Put(rank_code_dict, tax_id, one.ret)} }) :
               one \in {RankCodeOf(c, tax_id)} })

\* the tax_ids of the list that get_rank cannot look up
Unknown(tax_id_list) ==
    {i \in 1..Len(tax_id_list) : PropertyError(tax_id_list[i]) # NoError}

get_rank_code(c, tax_id_list) ==
    \* rank_dict = self.get_rank(tax_id_list) raises before anything is cached
    IF Unknown(tax_id_list) # {}
    THEN Result(c, EmptyDict,
                PropertyError(tax_id_list[CHOOSE i \in Unknown(tax_id_list) :
                                  \A j \in Unknown(tax_id_list) : i <= j]))
    ELSE RankCodeLoop(c, EmptyDict, tax_id_list)

----------------------------------------------------------------------------
(* Subtrees *)

\* get_leaves_dfs
RECURSIVE LeavesDfs(_, _)
RECURSIVE LeavesDfsChildren(_, _)
LeavesDfs(acc, tax_id) ==
    IF tax_id \in acc.visited_nodes THEN acc
    ELSE LET children == get_children(tax_id)
         IN  Only({
               IF children # <<>>
               THEN LeavesDfsChildren(acc1, children)
               ELSE [acc1 EXCEPT !.clade_leaves = @ \cup {tax_id}] :
               acc1 \in {[acc EXCEPT !.visited_nodes = @ \cup {tax_id}]} })
LeavesDfsChildren(acc, children) ==
    IF children = <<>> THEN acc
    ELSE Only({ LeavesDfsChildren(acc1, Tail(children)) :
                acc1 \in {LeavesDfs(acc, Head(children))} })

RECURSIVE LeavesLoop(_, _, _)
LeavesLoop(c, clade_dict, tax_ids) ==
    IF tax_ids = <<>> THEN Result(c, clade_dict, NoError)
    ELSE LET tax_id == Head(tax_ids)
         IN  IF PropertyError(tax_id) # NoError
             THEN Result(c, EmptyDict, PropertyError(tax_id))
             ELSE Only({ LeavesLoop(c, d, Tail(tax_ids)) :
                         d \in { Put(clade_dict, tax_id, acc.clade_leaves) :
                                 acc \in {LeavesDfs([visited_nodes |-> {},
                                                     clade_leaves |-> {}],
                                                    tax_id)} } })

get_leaves(c, tax_ids) == LeavesLoop(c, EmptyDict, tax_ids)

\* canonical_rank_weights of get_clade_rank_taxids
canonical_rank_weights ==
    [code \in {"R", "D", "K", "P", "C", "O", "F", "G", "S"} |->
        CASE code = "R" -> 0
          [] code = "D" -> 1
          [] code = "K" -> 2
          [] code = "P" -> 3
          [] code = "C" -> 4
          [] code = "O" -> 5
          [] code = "F" -> 6
          [] code = "G" -> 7
          [] code = "S" -> 8]

canonical_ranks == {translate_rank2code[r] : r \in DOMAIN translate_rank2code}

\* the rank argument left out (rank=None)
NoRankArg == ""

\* one node of the dfs of get_clade_rank_taxids, its rank code known
CladeVisit(acc, tax_id, wanted_ranks, got) ==
    LET taxonomy_rank == got.ret[tax_id]
        rank_code == taxonomy_rank.rank_code
        tax_lvl_dict ==
            IF taxonomy_rank.rank_depth = 0 /\ rank_code \in wanted_ranks
            THEN [acc.tax_lvl_dict EXCEPT ![rank_code] = @ \cup {tax_id}]
            ELSE acc.tax_lvl_dict
    IN  [c |-> got.c,
         visited_nodes |-> acc.visited_nodes \cup {tax_id},
         tax_lvl_dict |-> tax_lvl_dict,
         err |-> NoError]

\* "Keep going down the tree only if there's a wanted rank below current rank"
KeepGoingDown(rank_code, wanted_ranks) ==
    \E rank \in wanted_ranks :
        canonical_rank_weights[rank_code] < canonical_rank_weights[rank]

\* the dfs of get_clade_rank_taxids
RECURSIVE CladeDfs(_, _, _)
RECURSIVE CladeDfsChildren(_, _, _)
CladeDfs(acc, tax_id, wanted_ranks) ==
    IF acc.err # NoError \/ tax_id \in acc.visited_nodes THEN acc
    ELSE Only({
           IF got.err # NoError
           THEN [acc EXCEPT !.c = got.c, !.err = got.err,
                            !.visited_nodes = @ \cup {tax_id}]
           ELSE Only({
                  IF KeepGoingDown(got.ret[tax_id].rank_code, wanted_ranks)
                  THEN CladeDfsChildren(acc1, get_children(tax_id), wanted_ranks)
                  ELSE acc1 :
                  acc1 \in {CladeVisit(acc, tax_id, wanted_ranks, got)} }) :
           got \in {get_rank_code(acc.c, <<tax_id>>)} })
CladeDfsChildren(acc, children, wanted_ranks) ==
    IF children = <<>> THEN acc
    ELSE Only({ CladeDfsChildren(acc1, Tail(children), wanted_ranks) :
                acc1 \in {CladeDfs(acc, Head(children), wanted_ranks)} })

RECURSIVE CladeRankLoop(_, _, _, _)
CladeRankLoop(c, clade_tax_rank_dict, tax_ids, wanted_ranks) ==
    IF tax_ids = <<>> THEN Result(c, clade_tax_rank_dict, NoError)
    ELSE LET tax_id == Head(tax_ids)
         IN  Only({
               IF acc.err # NoError THEN Result(acc.c, EmptyDict, acc.err)
               ELSE Only({ CladeRankLoop(acc.c, d, Tail(tax_ids), wanted_ranks) :
                           d \in {Put(clade_tax_rank_dict, tax_id, acc.tax_lvl_dict)} }) :
               acc \in {CladeDfs([c |-> c, visited_nodes |-> {},
                                  tax_lvl_dict |-> [r \in wanted_ranks |-> {}],
                                  err |-> NoError],
                                 tax_id, wanted_ranks)} })

get_clade_rank_taxids(c, tax_ids, rank) ==
    IF rank # NoRankArg /\ rank \notin DOMAIN translate_rank2code
    THEN Result(c, EmptyDict, KeyError)
    ELSE CladeRankLoop(c, EmptyDict, tax_ids,
                       IF rank # NoRankArg THEN {translate_rank2code[rank]}
                       ELSE canonical_ranks)

\* rank_codes of get_siblings
rank_codes == {"S", "G", "F", "O", "C", "P"}

\* get_parent inside get_siblings: the nearest ancestor at one of rank_codes,
\* or the root
RECURSIVE SiblingsParent(_, _)
SiblingsParent(c, current_tax_id) ==
    LET parent == get_parent(current_tax_id)
    IN  Only({
          IF got.err # NoError THEN Result(got.c, None, got.err)
          ELSE IF got.ret[parent].rank_code \in rank_codes
                  /\ got.ret[parent].rank_depth = 0
          THEN Result(got.c, parent, NoError)
          ELSE IF parent = ROOT THEN Result(got.c, parent, NoError)
          ELSE SiblingsParent(got.c, parent) :
          got \in {get_rank_code(c, <<parent>>)} })

\* the dfs of get_siblings
RECURSIVE SiblingsDfs(_, _, _)
RECURSIVE SiblingsDfsChildren(_, _, _)
SiblingsDfs(acc, tax_id, wanted_rank) ==
    IF acc.err # NoError \/ tax_id \in acc.visited_nodes THEN acc
    ELSE Only({
           IF acc1.err # NoError THEN acc1
           ELSE IF acc1.rank_code # wanted_rank
           THEN SiblingsDfsChildren(acc1, get_children(tax_id), wanted_rank)
           ELSE [acc1 EXCEPT !.siblings = @ \cup {tax_id}] :
           acc1 \in { [c |-> got.c, err |-> got.err,
                       visited_nodes |-> acc.visited_nodes \cup {tax_id},
                       siblings |-> acc.siblings,
                       rank_code |-> IF got.err = NoError
                                     THEN got.ret[tax_id].rank_code ELSE ""] :
                      got \in {get_rank_code(acc.c, <<tax_id>>)} } })
SiblingsDfsChildren(acc, children, wanted_rank) ==
    IF children = <<>> THEN acc
    ELSE Only({ SiblingsDfsChildren(acc1, Tail(children), wanted_rank) :
                acc1 \in {SiblingsDfs(acc, Head(children), wanted_rank)} })

\* get_siblings once the rank code of tax_id is known
SiblingsOf(got, tax_id) ==
    Only({
      IF parent.err # NoError THEN Result(parent.c, {}, parent.err)
      ELSE Only({ Result(acc.c, acc.siblings, acc.err) :
                  acc \in {SiblingsDfs([c |-> parent.c, err |-> NoError,
                                        visited_nodes |-> {}, siblings |-> {},
                                        rank_code |-> ""],
                                       parent.ret, got.ret[tax_id].rank_code)} }) :
      parent \in {SiblingsParent(got.c, tax_id)} })

get_siblings(c, tax_id) ==
    Only({
      IF got.err # NoError THEN Result(got.c, {}, got.err)
      ELSE IF got.ret[tax_id].rank_depth # 0
      THEN Result(got.c, {}, TaxonomyTreeException)
      ELSE SiblingsOf(got, tax_id) :
      got \in {get_rank_code(c, <<tax_id>>)} })

----------------------------------------------------------------------------
(* The calls of the caller *)

\* the caller's record of one call
Call(op, args, r) == [op |-> op, args |-> args, ret |-> r.ret, err |-> r.err]

\* a call returns: the caches are as the call left them
Returns(op, args, r) ==
    /\ Len(history) < MaxQueries
    /\ lineages' = r.c.lineages
    /\ distances' = r.c.distances
    /\ lca_mappings' = r.c.lca_mappings
    /\ history' = Append(history, Call(op, args, r))
    /\ UNCHANGED tree

GetLineage ==
    \E tax_id \in Ids :
        Returns("get_lineage", <<tax_id>>, get_lineage(Caches, <<tax_id>>))

\* a batch: get_lineage on a list of two tax_ids
GetLineageBatch ==
    \E tax_id_1 \in Ids, tax_id_2 \in Ids :
        Returns("get_lineage", <<tax_id_1, tax_id_2>>,
                get_lineage(Caches, <<tax_id_1, tax_id_2>>))

GetLca ==
    \E tax_id_1 \in Ids, tax_id_2 \in Ids :
        Returns("get_lca", <<tax_id_1, tax_id_2>>,
                get_lca(Caches, tax_id_1, tax_id_2))

GetDistance ==
    \E tax_id_1 \in Ids, tax_id_2 \in Ids :
        Returns("get_distance", <<tax_id_1, tax_id_2>>,
                get_distance(Caches, tax_id_1, tax_id_2))

GetRankCode ==
    \E tax_id \in Ids :
        Returns("get_rank_code", <<tax_id>>, get_rank_code(Caches, <<tax_id>>))

\* the rank arguments the caller passes to get_clade_rank_taxids
RankArgs == {NoRankArg, "kingdom"}

GetCladeRankTaxids ==
    \E tax_id \in Ids, rank \in RankArgs :
        Returns("get_clade_rank_taxids", <<tax_id, rank>>,
                get_clade_rank_taxids(Caches, <<tax_id>>, rank))

GetSiblings ==
    \E tax_id \in Ids :
        Returns("get_siblings", <<tax_id>>, get_siblings(Caches, tax_id))

GetLeaves ==
    \E tax_id \in Ids :
        Returns("get_leaves", <<tax_id>>, get_leaves(Caches, <<tax_id>>))

----------------------------------------------------------------------------
(* Specifications *)

\* regular taxonomies of every shape, queried for ancestry
Init ==
    \E n \in 1..MaxId : \E p \in ParentColumns(n) :
        Built(File(n, p, [i \in 1..n |-> RegularRank(DepthIn(p, i))], Ascending(n)))

Next == GetLineage \/ GetLca \/ GetDistance \/ GetRankCode

Spec == Init /\ [][Next]_vars

\* taxonomies of every shape with every rank column, queried for ranks
InitRank ==
    \E n \in 1..MaxId : \E p \in ParentColumns(n) : \E r \in RankColumns(n) :
        Built(File(n, p, r, Ascending(n)))

NextRank == GetRankCode \/ GetCladeRankTaxids \/ GetSiblings

SpecRank == InitRank /\ [][NextRank]_vars

\* the lines of the file in every order
InitBuild ==
    \E n \in 1..MaxId : \E p \in ParentColumns(n) :
        \E order \in Permutations(1..n) :
            Built(File(n, p, [i \in 1..n |-> RegularRank(DepthIn(p, i))], order))

NextBuild == GetLeaves \/ GetLineage

SpecBuild == InitBuild /\ [][NextBuild]_vars

\* regular taxonomies of every shape, queried with identifiers the tree may
\* not have
NextUnknown == GetLineageBatch \/ GetLca \/ GetDistance

SpecUnknown == Init /\ [][NextUnknown]_vars

----------------------------------------------------------------------------
(* What the claims speak of, read off the built tree *)

InTree(n) == n \in DOMAIN taxonomy

\* n and its ancestors
RECURSIVE Anc(_)
Anc(n) == IF taxonomy[n].parent = None THEN {n} ELSE {n} \cup Anc(taxonomy[n].parent)

\* the number of edges between the root and n
Depth(n) == Cardinality(Anc(n)) - 1

\* the path from the root down to n
PathFromRoot(n) == [i \in 1..(Depth(n) + 1) |-> CHOOSE m \in Anc(n) : Depth(m) = i - 1]

\* the nodes of the clade rooted at r
Clade(r) == {m \in DOMAIN taxonomy : r \in Anc(m)}

\* the calls of the history that name only identifiers of the tree
CallsOf(op) ==
    {i \in DOMAIN history :
        /\ history[i].op = op
        /\ InTree(history[i].args[1])
        /\ Len(history[i].args) = 2 /\ op # "get_clade_rank_taxids"
              => InTree(history[i].args[2])}

\* the caches as construction leaves them
FreshCaches == [lineages |-> EmptyDict, distances |-> EmptyDict,
                lca_mappings |-> EmptyDict]

----------------------------------------------------------------------------
(* C1: every get_lca(a, b) on identifiers of the tree, whatever was queried
   before it, returns the lowest common ancestor: a node of both lineages
   that no common ancestor lies below, which is the element at index k-1 of
   the root-first lineage of a, k being the number of shared identifiers. *)
LcaIsLowestCommonAncestor ==
    \A i \in CallsOf("get_lca") :
        LET a == history[i].args[1]
            b == history[i].args[2]
            common == Anc(a) \cap Anc(b)
        IN  /\ history[i].err = NoError
            /\ history[i].ret \in common
            /\ \A m \in common : Depth(m) <= Depth(history[i].ret)
            /\ history[i].ret = PathFromRoot(a)[Cardinality(common)]

\* a second call that computes the LCA of two nodes neither of which is an
\* ancestor of the other
LcaOfCousinsAfterQuery ==
    \E i \in CallsOf("get_lca") :
        /\ i > 1
        /\ history[i].err = NoError
        /\ history[i].ret \notin {history[i].args[1], history[i].args[2]}

(* C2: every get_distance(a, b) on identifiers of the tree equals
   get_distance(lca, a) + get_distance(lca, b) for lca = get_lca(a, b), and
   is the number of parent-child edges between a and b: 0 from a node to
   itself, 1 between a parent and its child. *)
DistanceIsEdgeCount ==
    \A i \in CallsOf("get_distance") :
        LET a == history[i].args[1]
            b == history[i].args[2]
            l == get_lca(Caches, a, b).ret
            top == CHOOSE m \in Anc(a) \cap Anc(b) :
                       \A x \in Anc(a) \cap Anc(b) : Depth(x) <= Depth(m)
        IN  /\ history[i].err = NoError
            /\ history[i].ret = get_distance(Caches, l, a).ret
                                + get_distance(Caches, l, b).ret
            /\ history[i].ret = (Depth(a) - Depth(top)) + (Depth(b) - Depth(top))
            /\ a = b => history[i].ret = 0
            /\ get_parent(b) = a => history[i].ret = 1

\* a second call that measures two edges between two siblings
DistanceOfSiblingsAfterQuery ==
    \E i \in CallsOf("get_distance") :
        /\ i > 1
        /\ history[i].ret = 2
        /\ get_parent(history[i].args[1]) = get_parent(history[i].args[2])

(* C3: every get_lineage([n])[n] for a node n of the tree is a root-first
   path: it starts at the root, ends at n, and each element is the parent of
   the next; for the root it is [root]. *)
LineageIsRootFirstPath ==
    \A i \in CallsOf("get_lineage") :
        LET n == history[i].args[1]
            lineage == history[i].ret[n]
        IN  /\ history[i].err = NoError
            /\ DOMAIN history[i].ret = {n}
            /\ Len(lineage) >= 1
            /\ lineage[1] = ROOT
            /\ lineage[Len(lineage)] = n
            /\ \A k \in 1..(Len(lineage) - 1) : get_parent(lineage[k + 1]) = lineage[k]
            /\ n = ROOT => lineage = <<ROOT>>

\* the lineage of a grandchild of the root was returned
LineageOfGrandchild ==
    \E i \in CallsOf("get_lineage") :
        /\ history[i].err = NoError
        /\ Len(history[i].ret[history[i].args[1]]) >= 3

\* every entry of the three caches is still there, with the value it had
CacheEntriesKept ==
    /\ \A k \in DOMAIN lineages :
          k \in DOMAIN lineages' /\ lineages'[k] = lineages[k]
    /\ \A s \in DOMAIN distances : \A l \in DOMAIN distances[s] :
          /\ s \in DOMAIN distances'
          /\ l \in DOMAIN distances'[s]
          /\ distances'[s][l] = distances[s][l]
    /\ \A s \in DOMAIN lca_mappings : \A l \in DOMAIN lca_mappings[s] :
          /\ s \in DOMAIN lca_mappings'
          /\ l \in DOMAIN lca_mappings'[s]
          /\ lca_mappings'[s][l] = lca_mappings[s][l]

\* two calls with the same arguments returned the same
RepeatedCallsAgree ==
    \A i \in DOMAIN history : \A j \in DOMAIN history :
        history[i].op = history[j].op /\ history[i].args = history[j].args
            => history[i].ret = history[j].ret /\ history[i].err = history[j].err

(* C4: in any sequence of lineage, LCA, distance and rank-code queries, an
   entry written to the lineage, distance or LCA cache keeps its value in
   every later step, and a call repeated with the same arguments returns
   what the first call returned. *)
CachingIsIdempotent == [][CacheEntriesKept /\ RepeatedCallsAgree']_vars

\* a distance is asked a second time, with its entry cached by the first call
RepeatedDistanceCall ==
    /\ Len(history) = 2
    /\ history[1].op = "get_distance" /\ history[2].op = "get_distance"
    /\ history[1].args = history[2].args
    /\ history[1].err = NoError
    /\ history[1].args[1] # history[1].args[2]
    /\ Max(history[1].args[1], history[1].args[2])
           \in DOMAIN distances[Min(history[1].args[1], history[1].args[2])]

(* C5: get_lca(a, b) = get_lca(b, a) for all identifiers of the tree,
   whichever order was queried first: what a call returned is what the
   swapped call returns now, what an earlier or later swapped call returned,
   and what the swapped call returns when nothing is cached. *)
LcaIsSymmetric ==
    \A i \in CallsOf("get_lca") :
        LET a == history[i].args[1]
            b == history[i].args[2]
        IN  /\ history[i].ret = get_lca(Caches, b, a).ret
            /\ history[i].ret = get_lca(FreshCaches, b, a).ret
            /\ \A j \in CallsOf("get_lca") :
                  history[j].args = <<b, a>> => history[j].ret = history[i].ret

\* the LCA of two different nodes is asked in both orders
LcaAskedInBothOrders ==
    /\ Len(history) = 2
    /\ history[1].op = "get_lca" /\ history[2].op = "get_lca"
    /\ history[1].err = NoError /\ history[2].err = NoError
    /\ history[1].args[1] # history[1].args[2]
    /\ history[2].args = <<history[1].args[2], history[1].args[1]>>
    /\ history[1].ret \notin {history[1].args[1], history[1].args[2]}

\* the canonical ranks among n and its ancestors
CanonicalAbove(n) == {m \in Anc(n) : get_rank(m) \in DOMAIN translate_rank2code}

\* the first node with a canonical rank on the walk n, parent(n), ..., or the
\* root when there is none
Resolved(n) ==
    IF CanonicalAbove(n) = {} THEN ROOT
    ELSE CHOOSE m \in CanonicalAbove(n) :
             \A x \in CanonicalAbove(n) : Depth(x) <= Depth(m)

(* C6: every get_rank_code([n])[n] for a node n of the tree returns, without
   failing or looping, the letter of the first node with a canonical rank on
   the walk n, parent(n), ... (R when the root is reached without one), the
   number of edges from that node down to n as rank_depth, and the textual
   rank of n itself as rank_name. *)
RankCodeResolvesNearestCanonical ==
    \A i \in CallsOf("get_rank_code") :
        LET n == history[i].args[1]
            code == IF CanonicalAbove(n) = {} THEN "R"
                    ELSE translate_rank2code[get_rank(Resolved(n))]
        IN  /\ history[i].err = NoError
            /\ DOMAIN history[i].ret = {n}
            /\ history[i].ret[n] =
                   Rank(get_rank(n), code, Depth(n) - Depth(Resolved(n)))

\* a node without a canonical rank was resolved to a canonical ancestor
RankCodeBelowCanonical ==
    \E i \in CallsOf("get_rank_code") :
        /\ history[i].err = NoError
        /\ history[i].ret[history[i].args[1]].rank_depth >= 1
        /\ history[i].ret[history[i].args[1]].rank_code # "R"

(* C7: after construction, an identifier is in the leaf set if and only if
   its node has no children; the tree may be the root alone. *)
LeafSetIsChildless ==
    \A n \in DOMAIN taxonomy : (n \in leaves) <=> (taxonomy[n].children = <<>>)

(* C8: after construction the root has parent None, is not among its own
   children, and is the only node whose parent is None. *)
RootIsNormalised ==
    /\ taxonomy[ROOT].parent = None
    /\ ROOT \notin ToSet(taxonomy[ROOT].children)
    /\ \A n \in DOMAIN taxonomy : taxonomy[n].parent = None => n = ROOT

\* a tree of several nodes whose root line came last, after the lines that
\* name the root as their parent
RootLineLast ==
    /\ Len(nodes_file) >= 2
    /\ nodes_file[Len(nodes_file)].tax_id = ROOT
    /\ taxonomy[ROOT].children # <<>>

\* n is exactly at one of the ranks S, G, F, O, C, P
Qualifies(n) ==
    /\ get_rank(n) \in DOMAIN translate_rank2code
    /\ translate_rank2code[get_rank(n)] \in rank_codes

(* C9: get_siblings(id) fails with the invalid-rank error for every node
   that is not exactly at one of the ranks S, G, F, O, C, P, the root and the
   nodes of rank kingdom or superkingdom among them; it returns a result
   only for the nodes that qualify. *)
SiblingsRejectsOtherRanks ==
    \A i \in CallsOf("get_siblings") :
        ~Qualifies(history[i].args[1]) => history[i].err = TaxonomyTreeException

(* C10: get_clade_rank_taxids([r], rank) returns, under the code of each
   wanted rank (every canonical rank when none is asked for), the nodes of
   the clade of r that are exactly at that rank, all of them and no others,
   whatever ranks their ancestors in the clade have. *)
CladeRankTaxidsComplete ==
    \A i \in CallsOf("get_clade_rank_taxids") :
        LET r == history[i].args[1]
            rank == history[i].args[2]
            wanted == IF rank = NoRankArg THEN canonical_ranks
                      ELSE {translate_rank2code[rank]}
        IN  /\ history[i].err = NoError
            /\ history[i].ret[r] =
                   [code \in wanted |->
                       {m \in Clade(r) :
                           /\ get_rank(m) \in DOMAIN translate_rank2code
                           /\ translate_rank2code[get_rank(m)] = code}]

\* the calls get_rank_code([n]) that returned rank_depth 0
DepthZeroCalls ==
    {i \in CallsOf("get_rank_code") :
        history[i].err = NoError /\ history[i].ret[history[i].args[1]].rank_depth = 0}

\* n's own textual rank is canonical and the table maps it to code
OwnRankMapsTo(n, code) ==
    /\ get_rank(n) \in DOMAIN translate_rank2code
    /\ translate_rank2code[get_rank(n)] = code

(* C11, as stated: for every node n of the tree, the root included, if
   get_rank_code([n])[n].rank_depth is 0 then the textual rank of n is a
   canonical rank and translate_rank2code maps it to the returned rank_code. *)
DepthZeroIsOwnRankRootIncluded ==
    \A i \in DepthZeroCalls :
        OwnRankMapsTo(history[i].args[1], history[i].ret[history[i].args[1]].rank_code)

(* C11, amended: if get_rank_code([n])[n].rank_depth is 0 then either the
   textual rank of n is a canonical rank and translate_rank2code maps it to
   the returned rank_code, or n is the root, its rank is not canonical and
   the returned rank_code is R. *)
DepthZeroIsOwnRankOrRoot ==
    \A i \in DepthZeroCalls :
        LET n == history[i].args[1]
            code == history[i].ret[n].rank_code
        IN  \/ OwnRankMapsTo(n, code)
            \/ /\ n = ROOT
               /\ get_rank(n) \notin DOMAIN translate_rank2code
               /\ code = "R"

\* rank_depth 0 was returned for a node below the root, and a rank code was
\* returned for a node of no canonical rank below a kingdom
DepthZeroBelowRoot ==
    /\ \E i \in DepthZeroCalls : history[i].args[1] # ROOT
    /\ \E i \in CallsOf("get_rank_code") :
          /\ history[i].err = NoError
          /\ history[i].ret[history[i].args[1]].rank_code = "K"
          /\ get_rank(history[i].args[1]) = "no rank"

\* the lineage, LCA and distance calls made so far
AncestryCalls ==
    {i \in DOMAIN history : history[i].op \in {"get_lineage", "get_lca", "get_distance"}}

\* the arguments of call i that are identifiers of the tree
KnownArgs(i) == {a \in ToSet(history[i].args) : InTree(a)}

\* a call that names an identifier the tree does not have raises KeyError
UnknownTaxonFails ==
    \A i \in AncestryCalls :
        ToSet(history[i].args) # KnownArgs(i) => history[i].err = KeyError

\* a get_lineage batch answers every identifier of the tree it names
KnownOfBatchAnswered ==
    \A i \in AncestryCalls :
        history[i].op = "get_lineage" =>
            \A a \in KnownArgs(i) :
                /\ a \in DOMAIN history[i].ret
                /\ history[i].ret[a] = PathFromRoot(a)

(* C12, as stated: a lineage, LCA or distance query that names an identifier absent
   from the tree fails with the unknown-taxon error (KeyError) instead of
   returning a value, and the failure is scoped to that identifier: a batch
   get_lineage([known, unknown]) still answers the known identifier. *)
UnknownTaxonScopedPerId == UnknownTaxonFails /\ KnownOfBatchAnswered

\* the lowest common ancestor of two nodes of the tree
Lowest(a, b) == PathFromRoot(a)[Cardinality(Anc(a) \cap Anc(b))]

\* what call i has to return, all its identifiers being nodes of the tree
Answer(i) ==
    LET a == history[i].args[1]
        b == history[i].args[2]
    IN  CASE history[i].op = "get_lineage" ->
                 [x \in {a, b} |-> PathFromRoot(x)]
          [] history[i].op = "get_lca" -> Lowest(a, b)
          [] history[i].op = "get_distance" ->
                 Depth(a) + Depth(b) - 2 * Depth(Lowest(a, b))

\* a call that fails returns nothing, not even for the identifiers it knows
FailedCallAnswersNothing ==
    \A i \in AncestryCalls :
        history[i].err # NoError =>
            IF history[i].op = "get_lineage"
            THEN history[i].ret = EmptyDict
            ELSE history[i].ret = None

\* a call on identifiers of the tree is answered, whatever failed before it
KnownCallsAnswered ==
    \A i \in AncestryCalls :
        ToSet(history[i].args) = KnownArgs(i) =>
            history[i].err = NoError /\ history[i].ret = Answer(i)

(* C12, amended: a lineage, LCA or distance query that names an identifier
   absent from the tree fails with the unknown-taxon error (KeyError) instead
   of returning a value, and the failure is scoped to that call: a batch
   get_lineage([known, unknown]) fails as a whole and answers none of its
   identifiers, while the calls before and after it that name only
   identifiers of the tree are answered. *)
UnknownTaxonScopedPerCall ==
    UnknownTaxonFails /\ FailedCallAnswersNothing /\ KnownCallsAnswered

\* a batch whose first identifier is in the tree and whose second is not has
\* failed, and the next call, on the first identifier, was answered
BatchFailedThenAnswered ==
    /\ Len(history) >= 2
    /\ history[1].op = "get_lineage"
    /\ InTree(history[1].args[1]) /\ ~InTree(history[1].args[2])
    /\ history[1].err = KeyError
    /\ history[1].args[1] \in DOMAIN lineages
    /\ history[2].op = "get_distance"
    /\ history[2].args[1] = history[1].args[1]
    /\ history[2].args[1] # ROOT
    /\ history[2].err = NoError

\* the lines of a file in the order of their identifiers
Sorted(file) ==
    [k \in 1..Len(file) |-> file[CHOOSE x \in 1..Len(file) : file[x].tax_id = k]]

\* two built trees have the same identifiers, the same names, rank and
\* parent for each, the same set of children for each, the same rank index
\* and the same leaf set
SameTree(t, u) ==
    /\ DOMAIN t.taxonomy = DOMAIN u.taxonomy
    /\ \A n \in DOMAIN t.taxonomy :
          /\ t.taxonomy[n].name = u.taxonomy[n].name
          /\ t.taxonomy[n].genbank_common_name = u.taxonomy[n].genbank_common_name
          /\ t.taxonomy[n].rank = u.taxonomy[n].rank
          /\ t.taxonomy[n].parent = u.taxonomy[n].parent
          /\ ToSet(t.taxonomy[n].children) = ToSet(u.taxonomy[n].children)
    /\ t.byranks = u.byranks
    /\ t.leaves = u.leaves

(* C13: for a nodes file in which every identifier has exactly one line,
   every referenced parent has its own line and the root line is 1|1, the
   tree built from the lines in whatever order they have is one and the same
   tree, the one built from them in the order of their identifiers: the same
   names, rank and parent for every identifier, the same set of children,
   the same rank index and the same leaf set; each record is the one its own
   line gives (rank of the line, parent of the line, None for the root). *)
ConstructionIgnoresLineOrder ==
    /\ SameTree(construct_tree(Sorted(nodes_file)),
                [taxonomy |-> taxonomy, byranks |-> byranks, leaves |-> leaves])
    /\ \A k \in 1..Len(nodes_file) :
          LET line == nodes_file[k]
              node == taxonomy[line.tax_id]
          IN  /\ node.rank = line.tax_rank
              /\ node.parent = IF line.tax_id = ROOT THEN None ELSE line.tax_parent
              /\ node.name = taxid2name(line.tax_id).scientific_name
              /\ ToSet(node.children) =
                     {nodes_file[j].tax_id : j \in {x \in 1..Len(nodes_file) :
                         /\ nodes_file[x].tax_parent = line.tax_id
                         /\ nodes_file[x].tax_id # ROOT}}

\* a node below the root was synthesized as the parent of an earlier line
\* and back-filled by its own line
ForwardReferencedParent ==
    \E k \in 1..Len(nodes_file) : \E j \in (k + 1)..Len(nodes_file) :
        /\ nodes_file[k].tax_parent = nodes_file[j].tax_id
        /\ nodes_file[j].tax_id # ROOT
        /\ taxonomy[nodes_file[j].tax_id].rank = nodes_file[j].tax_rank
        /\ nodes_file[k].tax_id \in leaves

\* the call that has just returned
LastCall == history[Len(history)]

\* a get_lca or get_distance call has failed on an identifier the tree does
\* not have
PairCallFailed ==
    /\ LastCall.op \in {"get_lca", "get_distance"}
    /\ ToSet(LastCall.args) # {a \in ToSet(LastCall.args) : InTree(a)}
    /\ LastCall.err = KeyError

\* the pairs a pair cache has a value for, with their values
Entries(cache) ==
    {<<s, l, cache[s][l]>> : <<s, l>> \in
        {x \in (DOMAIN cache) \X Ids : x[2] \in DOMAIN cache[x[1]]}}

(* C14, as stated: a get_lca or get_distance call that fails because one of
   its identifiers is absent from the tree leaves the lineage, distance and
   LCA caches exactly as they were: no key is added at the outer or the
   inner level of the pair caches and no lineage is added for the other,
   known identifier. *)
FailedPairCallLeavesCaches ==
    [][PairCallFailed' => UNCHANGED <<lineages, distances, lca_mappings>>]_vars

(* C14, amended: a get_lca or get_distance call that fails because one of
   its identifiers is absent from the tree writes no pair entry and changes
   no entry of the three caches: the pairs with a cached distance or LCA and
   their values are as before, and so is every lineage cached before.  It
   may add an empty dict under the smaller identifier at the outer level of
   the pair caches, and the lineage of its known identifier, which is the
   root-first path of that identifier. *)
FailedPairCallWritesNoEntry ==
    [][PairCallFailed' =>
          /\ Entries(distances') = Entries(distances)
          /\ Entries(lca_mappings') = Entries(lca_mappings)
          /\ \A k \in DOMAIN lineages :
                k \in DOMAIN lineages' /\ lineages'[k] = lineages[k]
          /\ \A k \in (DOMAIN lineages') \ (DOMAIN lineages) :
                /\ InTree(k)
                /\ k \in ToSet(LastCall'.args)
                /\ lineages'[k] = PathFromRoot(k)
          /\ \A s \in ((DOMAIN distances') \ (DOMAIN distances))
                       \cup ((DOMAIN lca_mappings') \ (DOMAIN lca_mappings)) :
                s = Min(LastCall'.args[1], LastCall'.args[2])]_vars

\* after a distance was cached, a get_distance call has failed on an absent
\* identifier, leaving an empty dict at the outer level of both pair caches
\* and the lineage of its known identifier
FailedDistanceAfterCachedOne ==
    /\ Len(history) = 2
    /\ history[1].op = "get_distance" /\ history[1].err = NoError
    /\ Entries(distances) # {}
    /\ PairCallFailed
    /\ LastCall.op = "get_distance"
    /\ InTree(LastCall.args[1])
    /\ LastCall.args[1] \notin ToSet(history[1].args)
    /\ LastCall.args[1] \in DOMAIN lineages
    /\ \E s \in DOMAIN distances : distances[s] = EmptyDict
    /\ \E s \in DOMAIN lca_mappings : lca_mappings[s] = EmptyDict

====
